---- MODULE Spec2Model ----
(***************************************************************************)
(* Model of the traffic-sync dashboard front end: the Result Store         *)
(* (latestResults), the loading indicator with its message-rotation        *)
(* interval, the table formatter, the metric cards, the seven chart        *)
(* builders and the two request handlers evaluateManual / evaluateRandom.  *)
(*                                                                         *)
(* A JavaScript handler runs to completion between two awaits, so every    *)
(* action below is one such run: the synchronous prefix of a handler up to *)
(* its first await, or the continuation after an await resolved/rejected.  *)
(***************************************************************************)
EXTENDS Integers, Sequences, FiniteSets, TLC

\* ---------------------------------------------------------------- bounds
MaxRequests == 2      \* requests issued in one run of the page
MaxBatch == 1         \* longest batch a response carries

\* ------------------------------------------------------------ JS values
Null == [null |-> TRUE]
Undefined == [undefined |-> TRUE]
NegInfinity == -1000000    \* Math.max() of no arguments
NaN == -2000000            \* 0 * -Infinity

Nullish(v) == v = Null \/ v = Undefined

\* An object is the sequence of its <<key, value>> pairs in insertion order.
Keys(obj) == [i \in 1..Len(obj) |-> obj[i][1]]

HasKey(obj, k) == \E i \in 1..Len(obj) : obj[i][1] = k

\* obj.k  (undefined when the key is absent)
Get(obj, k) ==
  IF HasKey(obj, k)
  THEN obj[CHOOSE i \in 1..Len(obj) : obj[i][1] = k][2]
  ELSE Undefined

\* { ...obj, k: v } : an existing key keeps its place, a new key goes last
Put(obj, k, v) ==
  IF HasKey(obj, k)
  THEN [i \in 1..Len(obj) |-> IF obj[i][1] = k THEN <<k, v>> ELSE obj[i]]
  ELSE Append(obj, <<k, v>>)

\* o?.f || 0  for a nested object o that is null, undefined or a record
FieldOrZero(o, f) == IF Nullish(o) THEN 0 ELSE o[f]

\* array.map(f)
MapSeq(s, F(_)) == [i \in 1..Len(s) |-> F(s[i])]

\* ---------------------------------------------------- exact arithmetic
\* Numbers that arise from a division are kept as fractions <<n, d>>, d > 0.
Frac(n, d) == IF d < 0 THEN <<-n, -d>> ELSE <<n, d>>
FSub(a, b) == Frac(a[1] * b[2] - b[1] * a[2], a[2] * b[2])
FMul(a, b) == Frac(a[1] * b[1], a[2] * b[2])
FDiv(a, b) == Frac(a[1] * b[2], a[2] * b[1])
FLess(a, b) == a[1] * b[2] < b[1] * a[2]
FGeqInt(a, k) == a[1] >= k * a[2]
FGtInt(a, k) == a[1] > k * a[2]
FLtInt(a, k) == a[1] < k * a[2]

Abs(n) == IF n < 0 THEN -n ELSE n

\* nearest integer to n/d, halves away from zero
RoundDiv(n, d) ==
  LET q == (2 * Abs(n) + d) \div (2 * d)
  IN IF n < 0 THEN -q ELSE q

\* x.toFixed(1), as a count of tenths ; x.toFixed(0), as an integer
ToFixed1(a) == RoundDiv(a[1] * 10, a[2])
ToFixed0(a) == RoundDiv(a[1], a[2])

RECURSIVE SumSeq(_)
SumSeq(s) == IF s = <<>> THEN 0 ELSE Head(s) + SumSeq(Tail(s))

\* the first value taken for the maximum
MaxInt_First(s) == IF s = <<>> THEN NegInfinity ELSE s[1]

\* Math.max(...s) over integers
MaxInt(s) ==
  IF s = <<>> THEN NegInfinity
  ELSE CHOOSE m \in {s[i] : i \in 1..Len(s)} : \A j \in 1..Len(s) : s[j] <= m

\* the first element taken for the maximum
MaxFrac_First(s) == IF s = <<>> THEN <<NegInfinity, 1>> ELSE s[1]

\* Math.max(...s) over fractions
MaxFrac(s) ==
  IF s = <<>> THEN <<NegInfinity, 1>>
  ELSE s[CHOOSE i \in 1..Len(s) : \A j \in 1..Len(s) : ~FLess(s[i], s[j])]

\* orig > 0 ? ((orig - opt) / orig) * 100 : 0
ImprovementPct(orig, opt) ==
  IF orig > 0
  THEN FMul(FDiv(<<orig - opt, 1>>, <<orig, 1>>), <<100, 1>>)
  ELSE <<0, 1>>

\* ------------------------------------------------ OptimizationResult items
Timing(g, r) == [green_time_sec |-> g, red_time_sec |-> r]

Impact(o, p, oc, pc) ==
  [original_congestion |-> o, optimized_congestion |-> p,
   original_category |-> oc, optimized_category |-> pc]

ItemA ==
  << <<"traffic_light_id", "TL1">>,
     <<"optimization", Timing(30, 60)>>,
     <<"impact", Impact(10, 2, "severe", "none")>> >>

\* optimization and impact present but null
ItemB ==
  << <<"traffic_light_id", "TL2">>,
     <<"optimization", Null>>,
     <<"impact", Null>> >>

\* no optimization key at all, improvement exactly 0
ItemC ==
  << <<"traffic_light_id", "TL3">>,
     <<"impact", Impact(5, 5, "mild", "mild")>> >>

\* the items responses are drawn from
Items == {ItemA, ItemB}

\* every batch of at most n items
BatchesUpTo(n) == UNION {[1..k -> Items] : k \in 0..n}
Batches == BatchesUpTo(MaxBatch)

\* --------------------------------------------------------- table formatter
formatOptimizationData(optimization) ==
  IF Nullish(optimization) THEN <<"N/A">>
  ELSE <<"Green: ", optimization.green_time_sec,
         "s, Red: ", optimization.red_time_sec, "s">>

formatImpactData(impact) ==
  IF Nullish(impact) THEN <<"N/A">>
  ELSE LET improvement ==
             IF impact.original_congestion > 0
             THEN ToFixed1(FMul(FDiv(<<impact.original_congestion
                                        - impact.optimized_congestion, 1>>,
                                     <<impact.original_congestion, 1>>),
                                <<100, 1>>))
             ELSE 0
       IN <<"Original: ", impact.original_congestion,
            " (", impact.original_category,
            "), Optimized: ", impact.optimized_congestion,
            " (", impact.optimized_category,
            "), Improvement: ", improvement, "%">>

\* { ...item, optimization: ..., impact: ... }
FormatRow(item) ==
  Put(Put(item, "optimization",
          formatOptimizationData(Get(item, "optimization"))),
      "impact", formatImpactData(Get(item, "impact")))

\* key.charAt(0).toUpperCase() + key.slice(1).replace(/_/g, " ")
ColumnTitle(key) ==
  CASE key = "traffic_light_id" -> "Traffic light id"
    [] key = "timestamp" -> "Timestamp"
    [] key = "optimization" -> "Optimization"
    [] key = "impact" -> "Impact"
    [] OTHER -> key

Column(key) == [field |-> key, title |-> ColumnTitle(key), sortable |-> TRUE]

\* ----------------------------------------------------------- chart builders
ChartKinds ==
  {"bar", "line", "pie", "stacked", "scatter", "comparison", "improvement"}

\* the radios the user is taken to click in a run of the page
SelectableKinds == {"bar", "pie"}

SensorLabels(lr) == [i \in 1..Len(lr) |-> <<"Sensor ", i>>]

originalCongestion(d) == FieldOrZero(Get(d, "impact"), "original_congestion")
optimizedCongestion(d) == FieldOrZero(Get(d, "impact"), "optimized_congestion")
greenTime(d) == FieldOrZero(Get(d, "optimization"), "green_time_sec")
redTime(d) == FieldOrZero(Get(d, "optimization"), "red_time_sec")

\* the improvement taken relative to the optimized congestion
itemImprovement_Swapped(d) ==
  ImprovementPct(optimizedCongestion(d), originalCongestion(d))

itemImprovement(d) == ImprovementPct(originalCongestion(d), optimizedCongestion(d))

Threw(msg) == [threw |-> TRUE, error |-> msg]
Built(c) == [threw |-> FALSE, chart |-> c]

\* congestion series emitted as soon as any item has an impact
GatedSeries_AnyItem(lr) ==
  IF \E i \in 1..Len(lr) : ~Nullish(Get(lr[i], "impact"))
  THEN << [label |-> "Original Congestion",
           data |-> MapSeq(lr, originalCongestion)],
          [label |-> "Optimized Congestion",
           data |-> MapSeq(lr, optimizedCongestion)] >>
  ELSE <<>>

\* The congestion series of the bar and the line chart: read of
\* firstResult.impact raises a TypeError when latestResults[0] is undefined.
GatedSeries(lr) ==
  IF ~Nullish(Get(lr[1], "impact"))
  THEN << [label |-> "Original Congestion",
           data |-> MapSeq(lr, originalCongestion)],
          [label |-> "Optimized Congestion",
           data |-> MapSeq(lr, optimizedCongestion)] >>
  ELSE <<>>

createBarChart(lr) ==
  IF Len(lr) = 0
  THEN Threw("TypeError: Cannot read properties of undefined")
  ELSE Built([type |-> "bar",
              title |-> "Congestion Levels - Before vs After Optimization",
              labels |-> SensorLabels(lr),
              datasets |-> GatedSeries(lr)])

createLineChart(lr) ==
  IF Len(lr) = 0
  THEN Threw("TypeError: Cannot read properties of undefined")
  ELSE Built([type |-> "line",
              title |-> "Congestion Trends - Before vs After Optimization",
              labels |-> SensorLabels(lr),
              datasets |-> GatedSeries(lr)])

CountIf(s, P(_)) == Cardinality({i \in 1..Len(s) : P(s[i])})

IsExcellent(imp) == FGeqInt(imp, 50)
IsGood(imp) == FGeqInt(imp, 25) /\ FLtInt(imp, 50)
IsModerate(imp) == FGeqInt(imp, 10) /\ FLtInt(imp, 25)
\* a Low bucket that leaves out an improvement of exactly 0
IsLow_Exclusive(imp) == FGtInt(imp, 0) /\ FLtInt(imp, 10)

IsLow(imp) == FGeqInt(imp, 0) /\ FLtInt(imp, 10)
IsNoImprovement(imp) == FLtInt(imp, 0)

PieLabels ==
  <<"Excellent (>=50%)", "Good (25-49%)", "Moderate (10-24%)",
    "Low (0-9%)", "No Improvement">>

createPieChart(lr) ==
  LET improvements == MapSeq(lr, itemImprovement)
  IN Built([type |-> "pie",
            title |-> "Distribution of Improvement Levels",
            labels |-> PieLabels,
            datasets |-> << [data |-> << CountIf(improvements, IsExcellent),
                                         CountIf(improvements, IsGood),
                                         CountIf(improvements, IsModerate),
                                         CountIf(improvements, IsLow),
                                         CountIf(improvements, IsNoImprovement) >>] >>])

createStackedChart(lr) ==
  Built([type |-> "bar",
         title |-> "Traffic Light Timing Distribution",
         labels |-> SensorLabels(lr),
         datasets |-> << [label |-> "Green Time", data |-> MapSeq(lr, greenTime)],
                         [label |-> "Red Time", data |-> MapSeq(lr, redTime)] >>])

\* a point colour with thresholds exclusive on the lower bound
ScatterColor_Exclusive(improvement) ==
  IF FGtInt(improvement, 50) THEN "rgba(75, 192, 192, 0.8)"
  ELSE IF FGtInt(improvement, 25) THEN "rgba(54, 162, 235, 0.8)"
  ELSE IF FGtInt(improvement, 10) THEN "rgba(255, 205, 86, 0.8)"
  ELSE IF FGtInt(improvement, 0) THEN "rgba(255, 159, 64, 0.8)"
  ELSE "rgba(255, 99, 132, 0.8)"

\* point colour of the scatter chart
ScatterColor(improvement) ==
  IF FGeqInt(improvement, 50) THEN "rgba(75, 192, 192, 0.8)"
  ELSE IF FGeqInt(improvement, 25) THEN "rgba(54, 162, 235, 0.8)"
  ELSE IF FGeqInt(improvement, 10) THEN "rgba(255, 205, 86, 0.8)"
  ELSE IF FGeqInt(improvement, 0) THEN "rgba(255, 159, 64, 0.8)"
  ELSE "rgba(255, 99, 132, 0.8)"

\* index * maxValue, with 0 * -Infinity = NaN
TimesMax(index, maxValue) ==
  IF maxValue = NegInfinity
  THEN (IF index = 0 THEN NaN ELSE NegInfinity)
  ELSE index * maxValue

createScatterChart(lr) ==
  LET originalData == MapSeq(lr, originalCongestion)
      optimizedData == MapSeq(lr, optimizedCongestion)
      maxValue == MaxInt(originalData \o optimizedData)
  IN Built([type |-> "scatter",
            title |-> "Optimization Effectiveness: Original vs Optimized Congestion",
            labels |-> <<>>,
            datasets |->
              << [label |-> "Optimization Results",
                  points |-> [i \in 1..Len(lr) |->
                                [x |-> originalData[i], y |-> optimizedData[i]]],
                  backgroundColor |->
                    [i \in 1..Len(lr) |->
                       ScatterColor(ImprovementPct(originalData[i],
                                                   optimizedData[i]))]],
                 [label |-> "No Change Line",
                  points |-> [i \in 1..2 |->
                                [x |-> TimesMax(i - 1, maxValue),
                                 y |-> TimesMax(i - 1, maxValue)]],
                  type |-> "line"] >>])

createComparisonChart(lr) ==
  Built([type |-> "bar",
         title |-> "Before vs After Optimization Comparison",
         labels |-> SensorLabels(lr),
         datasets |-> << [label |-> "Before Optimization",
                          data |-> MapSeq(lr, originalCongestion)],
                         [label |-> "After Optimization",
                          data |-> MapSeq(lr, optimizedCongestion)] >>])

ImprovementColor(value) ==
  IF FGtInt(value, 0) THEN "rgba(75, 192, 192, 0.8)"
  ELSE "rgba(255, 99, 132, 0.8)"

createImprovementChart(lr) ==
  LET improvementData == MapSeq(lr, itemImprovement)
  IN Built([type |-> "bar",
            title |-> "Percentage Improvement per Sensor",
            labels |-> SensorLabels(lr),
            datasets |-> << [label |-> "Improvement %",
                             values |-> improvementData,
                             backgroundColor |->
                               MapSeq(improvementData, ImprovementColor)] >>])

\* the switch of updateChart
BuildChart(chartType, lr) ==
  CASE chartType = "bar" -> createBarChart(lr)
    [] chartType = "line" -> createLineChart(lr)
    [] chartType = "pie" -> createPieChart(lr)
    [] chartType = "stacked" -> createStackedChart(lr)
    [] chartType = "scatter" -> createScatterChart(lr)
    [] chartType = "comparison" -> createComparisonChart(lr)
    [] chartType = "improvement" -> createImprovementChart(lr)

\* which builder produced a chart, read off its title
ChartKind(c) ==
  CASE c.title = "Congestion Levels - Before vs After Optimization" -> "bar"
    [] c.title = "Congestion Trends - Before vs After Optimization" -> "line"
    [] c.title = "Distribution of Improvement Levels" -> "pie"
    [] c.title = "Traffic Light Timing Distribution" -> "stacked"
    [] c.title = "Optimization Effectiveness: Original vs Optimized Congestion" -> "scatter"
    [] c.title = "Before vs After Optimization Comparison" -> "comparison"
    [] c.title = "Percentage Improvement per Sensor" -> "improvement"

\* ------------------------------------------------------------ page state
VARIABLES
  latestResults,    \* utils.js: the Result Store
  loadingInterval,  \* utils.js: handle of the last setInterval, 0 = null
  messageIndex,     \* utils.js: index into loadingMessages
  currentChart,     \* charts.js: the chart instance, Null before the first
  loadingMessage,   \* #loadingMessage innerText
  loadingSection,   \* #loadingSection style.display
  resultsSection,   \* #resultsSection style.display
  chartsSection,    \* #chartsSection style.display
  resultTable,      \* #resultTable: the columns and rows handed to the grid
  cards,            \* the four metric cards' text
  chartType,        \* the checked chartType radio
  alerted,          \* text of the alert box that is open, <<>> if none
  timers,           \* browser: ids of the intervals that are live
  timerSeq,         \* browser: last interval id handed out
  requests,         \* the handler runs suspended at an await, oldest first
  last              \* history: what the last handler run did

vars ==
  <<latestResults, loadingInterval, messageIndex, currentChart,
    loadingMessage, loadingSection, resultsSection, chartsSection,
    resultTable, cards, chartType, alerted, timers, timerSeq,
    requests, last>>

loadingMessages ==
  <<"Applying fuzzy logic...",
    "Applying hierarchical clustering...",
    "Applying particle swarm optimization...">>

\* The page as one value, so that the functions of the source can be
\* composed in the order the source calls them.
Page ==
  [latestResults |-> latestResults, loadingInterval |-> loadingInterval,
   messageIndex |-> messageIndex, currentChart |-> currentChart,
   loadingMessage |-> loadingMessage, loadingSection |-> loadingSection,
   resultsSection |-> resultsSection, chartsSection |-> chartsSection,
   resultTable |-> resultTable, cards |-> cards, chartType |-> chartType,
   alerted |-> alerted, timers |-> timers, timerSeq |-> timerSeq]

SetPage(q) ==
  /\ latestResults' = q.latestResults
  /\ loadingInterval' = q.loadingInterval
  /\ messageIndex' = q.messageIndex
  /\ currentChart' = q.currentChart
  /\ loadingMessage' = q.loadingMessage
  /\ loadingSection' = q.loadingSection
  /\ resultsSection' = q.resultsSection
  /\ chartsSection' = q.chartsSection
  /\ resultTable' = q.resultTable
  /\ cards' = q.cards
  /\ chartType' = q.chartType
  /\ alerted' = q.alerted
  /\ timers' = q.timers
  /\ timerSeq' = q.timerSeq

\* index.html as served: all three sections hidden, bar radio checked,
\* placeholder card texts, no table configured.
InitialCards ==
  [avgReduction |-> 653, bestImprovement |-> 800, avgGreenTime |-> 52,
   optimizedSensors |-> <<22>>]

InitialTable == [columns |-> <<>>, data |-> <<>>]

\* --------------------------------------------------- utils.js / charts.js
setInterval(p) ==
  [p EXCEPT !.timerSeq = p.timerSeq + 1,
            !.timers = p.timers \cup {p.timerSeq + 1}]

clearInterval(p, id) == [p EXCEPT !.timers = p.timers \ {id}]

\* showLoading leaving the results and charts sections as they are
showLoading_KeepsResults(p) ==
  LET p1 == [p EXCEPT !.loadingSection = "block"]
      p2 == setInterval(p1)
  IN [p2 EXCEPT !.loadingInterval = p2.timerSeq]

showLoading(p) ==
  LET p1 == [p EXCEPT !.loadingSection = "block",
                      !.resultsSection = "none",
                      !.chartsSection = "none"]
      p2 == setInterval(p1)
  IN [p2 EXCEPT !.loadingInterval = p2.timerSeq]

hideLoading(p) ==
  [clearInterval(p, p.loadingInterval) EXCEPT !.loadingSection = "none"]

\* a callback that walks the messages backwards
rotateMessage_Backwards(p) ==
  LET i == (p.messageIndex + Len(loadingMessages) - 1) % Len(loadingMessages)
  IN [p EXCEPT !.messageIndex = i, !.loadingMessage = loadingMessages[i + 1]]

\* the callback handed to setInterval
rotateMessage(p) ==
  LET i == (p.messageIndex + 1) % Len(loadingMessages)
  IN [p EXCEPT !.messageIndex = i, !.loadingMessage = loadingMessages[i + 1]]

\* cards whose first figure is the average of the per-item improvements
updateMetricsCards_AveragesReductions(p) ==
  IF Len(p.latestResults) = 0 THEN p
  ELSE
    LET lr == p.latestResults
        n == Len(lr)
        improvements == MapSeq(lr, itemImprovement)
        RECURSIVE FSum(_)
        FSum(s) ==
          IF s = <<>> THEN <<0, 1>>
          ELSE LET t == FSum(Tail(s))
               IN Frac(Head(s)[1] * t[2] + t[1] * Head(s)[2], Head(s)[2] * t[2])
        avgReduction == FDiv(FSum(improvements), <<n, 1>>)
        greenTimes == MapSeq(lr, greenTime)
        IsPositive(imp) == FGtInt(imp, 0)
    IN [p EXCEPT !.cards =
          [avgReduction |-> ToFixed1(avgReduction),
           bestImprovement |-> ToFixed1(MaxFrac(improvements)),
           avgGreenTime |-> ToFixed0(<<SumSeq(greenTimes), n>>),
           optimizedSensors |-> <<CountIf(improvements, IsPositive), n>>]]

\* cards that are zeroed when the store is empty
updateMetricsCards_ClearsOnEmpty(p) ==
  IF Len(p.latestResults) = 0
  THEN [p EXCEPT !.cards = [avgReduction |-> 0, bestImprovement |-> 0,
                            avgGreenTime |-> 0, optimizedSensors |-> <<0, 0>>]]
  ELSE
    LET lr == p.latestResults
        n == Len(lr)
        originalCongestions == MapSeq(lr, originalCongestion)
        optimizedCongestions == MapSeq(lr, optimizedCongestion)
        greenTimes == MapSeq(lr, greenTime)
        avgOriginal == <<SumSeq(originalCongestions), n>>
        avgOptimized == <<SumSeq(optimizedCongestions), n>>
        avgReduction ==
          IF FGtInt(avgOriginal, 0)
          THEN FMul(FDiv(FSub(avgOriginal, avgOptimized), avgOriginal), <<100, 1>>)
          ELSE <<0, 1>>
        improvements ==
          [i \in 1..n |-> ImprovementPct(originalCongestions[i],
                                         optimizedCongestions[i])]
        bestImprovement == MaxFrac(improvements)
        avgGreenTime == <<SumSeq(greenTimes), n>>
        IsPositive(imp) == FGtInt(imp, 0)
        optimizedSensors == CountIf(improvements, IsPositive)
    IN [p EXCEPT !.cards =
          [avgReduction |-> ToFixed1(avgReduction),
           bestImprovement |-> ToFixed1(bestImprovement),
           avgGreenTime |-> ToFixed0(avgGreenTime),
           optimizedSensors |-> <<optimizedSensors, n>>]]

updateMetricsCards(p) ==
  IF Len(p.latestResults) = 0 THEN p
  ELSE
    LET lr == p.latestResults
        n == Len(lr)
        originalCongestions == MapSeq(lr, originalCongestion)
        optimizedCongestions == MapSeq(lr, optimizedCongestion)
        greenTimes == MapSeq(lr, greenTime)
        avgOriginal == <<SumSeq(originalCongestions), n>>
        avgOptimized == <<SumSeq(optimizedCongestions), n>>
        avgReduction ==
          IF FGtInt(avgOriginal, 0)
          THEN FMul(FDiv(FSub(avgOriginal, avgOptimized), avgOriginal), <<100, 1>>)
          ELSE <<0, 1>>
        improvements ==
          [i \in 1..n |-> ImprovementPct(originalCongestions[i],
                                         optimizedCongestions[i])]
        bestImprovement == MaxFrac(improvements)
        avgGreenTime == <<SumSeq(greenTimes), n>>
        IsPositive(imp) == FGtInt(imp, 0)
        optimizedSensors == CountIf(improvements, IsPositive)
    IN [p EXCEPT !.cards =
          [avgReduction |-> ToFixed1(avgReduction),
           bestImprovement |-> ToFixed1(bestImprovement),
           avgGreenTime |-> ToFixed0(avgGreenTime),
           optimizedSensors |-> <<optimizedSensors, n>>]]

\* A call that may raise: the page it leaves behind and what it raised.
Returned(p) == [page |-> p, threw |-> FALSE, error |-> ""]
Raised(p, msg) == [page |-> p, threw |-> TRUE, error |-> msg]

\* updateChart also making the charts section visible
updateChart_ShowsCharts(p, type) ==
  LET p1 == IF p.currentChart # Null
            THEN [p EXCEPT !.currentChart.destroyed = TRUE,
                           !.chartsSection = "block"]
            ELSE [p EXCEPT !.chartsSection = "block"]
      b == BuildChart(type, p1.latestResults)
  IN IF type \notin ChartKinds THEN Returned(p1)
     ELSE IF b.threw THEN Raised(p1, b.error)
     ELSE Returned([p1 EXCEPT !.currentChart =
                      [chart |-> b.chart, destroyed |-> FALSE]])

updateChart(p, type) ==
  LET p1 == IF p.currentChart # Null
            THEN [p EXCEPT !.currentChart.destroyed = TRUE]
            ELSE p
      b == BuildChart(type, p1.latestResults)
  IN IF type \notin ChartKinds THEN Returned(p1)
     ELSE IF b.threw THEN Raised(p1, b.error)
     ELSE Returned([p1 EXCEPT !.currentChart =
                      [chart |-> b.chart, destroyed |-> FALSE]])

\* showResults appending the new batch to the stored one
showResults_Appends(p, data) ==
  LET p1 == hideLoading(p)
      p2 == [p1 EXCEPT !.latestResults = p.latestResults \o data,
                       !.resultsSection = "block",
                       !.chartsSection = "block"]
      formattedData == MapSeq(p2.latestResults, FormatRow)
  IN IF Len(formattedData) = 0
     THEN Raised(p2, "Cannot convert undefined or null to object")
     ELSE
       LET columns == MapSeq(Keys(formattedData[1]), Column)
           p3 == [p2 EXCEPT !.resultTable =
                    [columns |-> columns, data |-> formattedData]]
           u == updateChart(p3, "bar")
       IN IF u.threw THEN u
          ELSE Returned(updateMetricsCards(u.page))

\* showResults taking the columns from the last formatted row
showResults_ColumnsOfLastRow(p, data) ==
  LET p1 == hideLoading(p)
      p2 == [p1 EXCEPT !.latestResults = data,
                       !.resultsSection = "block",
                       !.chartsSection = "block"]
      formattedData == MapSeq(data, FormatRow)
  IN IF Len(formattedData) = 0
     THEN Raised(p2, "Cannot convert undefined or null to object")
     ELSE
       LET columns == MapSeq(Keys(formattedData[Len(formattedData)]), Column)
           p3 == [p2 EXCEPT !.resultTable =
                    [columns |-> columns, data |-> formattedData]]
           u == updateChart(p3, "bar")
       IN IF u.threw THEN u
          ELSE Returned(updateMetricsCards(u.page))

showResults(p, data) ==
  LET p1 == hideLoading(p)
      p2 == [p1 EXCEPT !.latestResults = data,
                       !.resultsSection = "block",
                       !.chartsSection = "block"]
      formattedData == MapSeq(data, FormatRow)
  IN IF Len(formattedData) = 0
     THEN Raised(p2, "Cannot convert undefined or null to object")
     ELSE
       LET columns == MapSeq(Keys(formattedData[1]), Column)
           p3 == [p2 EXCEPT !.resultTable =
                    [columns |-> columns, data |-> formattedData]]
           u == updateChart(p3, "bar")
       IN IF u.threw THEN u
          ELSE Returned(updateMetricsCards(u.page))

\* The functions showResults calls, in the order it calls them (history
\* only): each with the length of latestResults at the moment of the call.
Call(fn, p) == [fn |-> fn, stored |-> Len(p.latestResults)]

showResultsCalls(p, data) ==
  LET p1 == hideLoading(p)
      p2 == [p1 EXCEPT !.latestResults = data,
                       !.resultsSection = "block",
                       !.chartsSection = "block"]
      formatting ==
        [k \in 1..(2 * Len(data)) |->
           IF k % 2 = 1 THEN Call("formatOptimizationData", p2)
           ELSE Call("formatImpactData", p2)]
  IN <<Call("hideLoading", p)>> \o formatting
       \o (IF Len(data) = 0 THEN <<>>
           ELSE <<Call("bootstrapTable", p2), Call("updateChart", p2)>>
                  \o (IF updateChart(p2, "bar").threw THEN <<>>
                      ELSE <<Call("updateMetricsCards", p2)>>))

alert(p, msg) == [p EXCEPT !.alerted = msg]

\* a catch block that also resets the Result Store
CatchError_ClearsStore(p, message) ==
  alert(hideLoading([p EXCEPT !.latestResults = <<>>]), <<"Error: ", message>>)

\* a catch block that forgets hideLoading()
CatchError_KeepsLoading(p, message) == alert(p, <<"Error: ", message>>)

\* the catch block of evaluateManual and of evaluateRandom
CatchError(p, message) == alert(hideLoading(p), <<"Error: ", message>>)

\* ------------------------------------------------------ inputs, responses
\* what parseInt / parseFloat make of a required form field
FieldValues == {NaN, 12}
RequiredFields == {"vehiclesPerMinute", "avgSpeed", "circulationTime", "density"}

\* the forms submitted: all four fields numeric, or exactly one of them not
ManualForms ==
  {form \in [RequiredFields -> FieldValues] :
     Cardinality({k \in RequiredFields : form[k] = NaN}) <= 1}

SensorValues == {NaN, -1, 0, 3}

\* a validation that lets every value through
isNaN_Never(x) == FALSE

isNaN(x) == x = NaN

HttpStatuses == {200, 500}
ResponseOk(status) == status >= 200 /\ status <= 299

\* JSON bodies of POST /evaluate/{n}: a bare array, or an object
JsonArray(X) == [array |-> X]
JsonObject(pairs) == [object |-> pairs]
IsArray(json) == "array" \in DOMAIN json

RandomBodies ==
  {JsonArray(X) : X \in Batches}
    \cup {JsonObject(<< <<"optimizations", X>> >>) : X \in Batches}
    \cup {JsonObject(<< <<"detail", "queued">> >>), JsonObject(<<>>)}

\* json.optimizations || []  without the Array.isArray test
ResultsArray_ObjectOnly(json) ==
  IF IsArray(json) THEN <<>>
  ELSE IF HasKey(json.object, "optimizations")
       THEN Get(json.object, "optimizations")
       ELSE <<>>

\* Array.isArray(json) ? json : json.optimizations || []
ResultsArray(json) ==
  IF IsArray(json) THEN json.array
  ELSE IF HasKey(json.object, "optimizations")
       THEN Get(json.object, "optimizations")
       ELSE <<>>

\* ------------------------------------------------------------- requests
\* What a request remembers of the page it was issued from (history only).
Snapshot ==
  [latestResults |-> latestResults, resultsSection |-> resultsSection,
   chartsSection |-> chartsSection]

NoSnapshot ==
  [latestResults |-> <<>>, resultsSection |-> "none", chartsSection |-> "none"]

\* requests holds the handler runs suspended at an await, in the order they
\* were started.  overtakenBy: whether a run started "earlier" or "later" than
\* this one handed a batch to showResults while this one was suspended
\* (history only)
NewRequest(kind) ==
  [kind |-> kind, stage |-> "fetch", issued |-> Snapshot, overtakenBy |-> {}]

\* the handler run r ends (its try block completed or its catch block ran)
Finish(r, delivered) ==
  requests' =
    [i \in 1..(Len(requests) - 1) |->
       LET j == IF i < r THEN i ELSE i + 1
           by == IF j < r THEN "later" ELSE "earlier"
       IN IF delivered
          THEN [requests[j] EXCEPT !.overtakenBy = @ \cup {by}]
          ELSE requests[j]]

\* history of the last handler run, kept when that run worked on a response:
\* the operation, how it ended, why it failed, the HTTP status it saw, the
\* page the request was issued from and, when a batch was handed to
\* showResults, that batch (<<>> otherwise), the shape of the body it came in
\* ("single" for evaluateManual) and what overtook the request; calls is the
\* sequence of calls a function made when it was run on its own.  Every other
\* handler run leaves Idle.
History(op, outcome) ==
  [op |-> op, outcome |-> outcome,
   cause |-> "none", status |-> 0, shape |-> "none", issued |-> NoSnapshot,
   overtakenBy |-> {}, batch |-> <<>>, calls |-> <<>>]

Idle == History("none", "none")

Caught(op, r, cause, status) ==
  last' = [History(op, "caught") EXCEPT
             !.cause = cause, !.status = status,
             !.issued = requests[r].issued]

\* alert() is modal: while its box is open no handler or timer callback runs
NoAlertOpen == alerted = <<>>

Init ==
  /\ latestResults = <<>>
  /\ loadingInterval = 0
  /\ messageIndex = 0
  /\ currentChart = Null
  /\ loadingMessage = ""
  /\ loadingSection = "none"
  /\ resultsSection = "none"
  /\ chartsSection = "none"
  /\ resultTable = InitialTable
  /\ cards = InitialCards
  /\ chartType = "bar"
  /\ alerted = <<>>
  /\ timers = {}
  /\ timerSeq = 0
  /\ requests = <<>>
  /\ last = Idle

\* ---------------------------------------------------------------- actions
\* Every submission that passes validation calls showLoading once, so timerSeq
\* is also the number of requests issued so far; MaxRequests caps it.

\* evaluateManual() up to its first await
EvaluateManual(form) ==
  /\ NoAlertOpen
  /\ IF \/ isNaN(form.vehiclesPerMinute) \/ isNaN(form.avgSpeed)
        \/ isNaN(form.circulationTime) \/ isNaN(form.density)
     THEN /\ SetPage(alert(Page,
                           <<"Please fill in all required fields with valid numbers.">>))
          /\ last' = Idle
          /\ UNCHANGED requests
     ELSE /\ timerSeq < MaxRequests
          /\ SetPage(showLoading(Page))
          /\ requests' = Append(requests, NewRequest("manual"))
          /\ last' = Idle

\* evaluateRandom() up to its first await
EvaluateRandom(sensors) ==
  /\ NoAlertOpen
  /\ IF isNaN(sensors) \/ sensors <= 0
     THEN /\ SetPage(alert(Page, <<"Enter a valid number of sensors.">>))
          /\ last' = Idle
          /\ UNCHANGED requests
     ELSE /\ timerSeq < MaxRequests
          /\ SetPage(showLoading(Page))
          /\ requests' = Append(requests, NewRequest("random"))
          /\ last' = Idle

\* fetch() rejects (network failure): the catch block runs
FetchRejected(r) ==
  /\ NoAlertOpen
  /\ requests[r].stage = "fetch"
  /\ SetPage(CatchError(Page, <<"Failed to fetch">>))
  /\ Finish(r, FALSE)
  /\ Caught("fetchRejected", r, "network", 0)

\* fetch() resolves with a status: !res.ok throws into the catch block,
\* otherwise the handler awaits res.json()
FetchResolved(r, status) ==
  /\ NoAlertOpen
  /\ requests[r].stage = "fetch"
  /\ IF ~ResponseOk(status)
     THEN /\ SetPage(CatchError(Page, <<"HTTP error! status: ", status>>))
          /\ Finish(r, FALSE)
          /\ Caught("fetchResolved", r, "http", status)
     ELSE /\ SetPage(Page)
          /\ requests' = [requests EXCEPT ![r].stage = "json"]
          /\ last' = Idle

\* res.json() rejects (body is not JSON): the catch block runs
JsonRejected(r) ==
  /\ NoAlertOpen
  /\ requests[r].stage = "json"
  /\ SetPage(CatchError(Page, <<"Unexpected end of JSON input">>))
  /\ Finish(r, FALSE)
  /\ Caught("jsonRejected", r, "json", 0)

\* the rest of the try block once the batch is known, and the catch block
\* when showResults raises
HandleBatch(p, data) ==
  LET s == showResults(p, data)
  IN IF s.threw THEN CatchError(s.page, <<s.error>>) ELSE s.page

Deliver(r, data, shape) ==
  LET s == showResults(Page, data)
  IN /\ SetPage(IF s.threw THEN CatchError(s.page, <<s.error>>) ELSE s.page)
     /\ Finish(r, TRUE)
     /\ last' = [History("jsonResolved",
                         IF s.threw THEN "caught" ELSE "results") EXCEPT
                   !.cause = IF s.threw THEN "showResults" ELSE "none",
                   !.shape = shape,
                   !.issued = requests[r].issued,
                   !.overtakenBy = requests[r].overtakenBy,
                   !.batch = <<data>>]

\* evaluateManual after res.json() resolved: showResults([json])
ManualJsonResolved(r, json) ==
  /\ NoAlertOpen
  /\ requests[r].stage = "json"
  /\ requests[r].kind = "manual"
  /\ Deliver(r, <<json>>, "single")

\* evaluateRandom after res.json() resolved
RandomJsonResolved(r, json) ==
  /\ NoAlertOpen
  /\ requests[r].stage = "json"
  /\ requests[r].kind = "random"
  /\ Deliver(r, ResultsArray(json), IF IsArray(json) THEN "array" ELSE "object")

\* one firing of a live interval's callback
Tick(t) ==
  /\ NoAlertOpen
  /\ t \in timers
  /\ SetPage(rotateMessage(Page))
  /\ last' = Idle
  /\ UNCHANGED requests

\* a change listener that calls updateChart whatever the store holds
ChartTypeChange_Unguarded(value) ==
  /\ NoAlertOpen
  /\ value # chartType
  /\ SetPage(updateChart([Page EXCEPT !.chartType = value], value).page)
  /\ last' = Idle
  /\ UNCHANGED requests

\* the change listener of the chartType radios
ChartTypeChange(value) ==
  /\ NoAlertOpen
  /\ value # chartType
  /\ LET p == [Page EXCEPT !.chartType = value]
     IN IF Len(p.latestResults) > 0
        THEN SetPage(updateChart(p, value).page)
        ELSE SetPage(p)
  /\ last' = Idle
  /\ UNCHANGED requests

\* the user closes the alert box: the handler that opened it returns
DismissAlert ==
  /\ ~NoAlertOpen
  /\ SetPage([Page EXCEPT !.alerted = <<>>])
  /\ last' = Idle
  /\ UNCHANGED requests

Next ==
  \/ \E form \in ManualForms : EvaluateManual(form)
  \/ \E sensors \in SensorValues : EvaluateRandom(sensors)
  \/ \E r \in 1..Len(requests) : FetchRejected(r)
  \/ \E r \in 1..Len(requests), status \in HttpStatuses : FetchResolved(r, status)
  \/ \E r \in 1..Len(requests) : JsonRejected(r)
  \/ \E r \in 1..Len(requests), json \in Items : ManualJsonResolved(r, json)
  \/ \E r \in 1..Len(requests), json \in RandomBodies : RandomJsonResolved(r, json)
  \/ \E t \in 1..timerSeq : Tick(t)
  \/ \E value \in SelectableKinds : ChartTypeChange(value)
  \/ DismissAlert

Spec == Init /\ [][Next]_vars

\* ------------------------------------------------- the builders on their own
\* The seven chart builders are global functions of charts.js reading
\* latestResults; this specification starts from every batch of ChartBatches
\* in the store and calls each builder on it.
MaxChartBatch == 2

\* optimization made the congestion worse
ItemD ==
  << <<"traffic_light_id", "TL4">>,
     <<"optimization", Timing(20, 70)>>,
     <<"impact", Impact(5, 12, "mild", "severe")>> >>

\* improvements of exactly 50, 25 and 10 percent, and an original of 0
ItemE ==
  << <<"traffic_light_id", "TL5">>,
     <<"optimization", Timing(45, 45)>>,
     <<"impact", Impact(10, 5, "severe", "mild")>> >>

ItemF ==
  << <<"traffic_light_id", "TL6">>,
     <<"optimization", Timing(40, 50)>>,
     <<"impact", Impact(4, 3, "mild", "mild")>> >>

ItemG ==
  << <<"traffic_light_id", "TL7">>,
     <<"optimization", Timing(35, 55)>>,
     <<"impact", Impact(10, 9, "severe", "severe")>> >>

ItemH ==
  << <<"traffic_light_id", "TL8">>,
     <<"optimization", Timing(25, 65)>>,
     <<"impact", Impact(0, 3, "none", "mild")>> >>

\* an item carrying an additional scalar field
ItemI ==
  << <<"traffic_light_id", "TL9">>,
     <<"timestamp", "2025-01-01T00:00:00Z">>,
     <<"optimization", Timing(50, 40)>>,
     <<"impact", Impact(8, 4, "severe", "mild")>> >>

ChartItems == {ItemA, ItemB, ItemC, ItemD, ItemE, ItemF, ItemG, ItemH, ItemI}

ChartBatches == UNION {[1..k -> ChartItems] : k \in 0..MaxChartBatch}

InitCharts ==
  /\ latestResults \in ChartBatches
  /\ loadingInterval = 0
  /\ messageIndex = 0
  /\ currentChart = Null
  /\ loadingMessage = ""
  /\ loadingSection = "none"
  /\ resultsSection = "none"
  /\ chartsSection = "none"
  /\ resultTable = InitialTable
  /\ cards = InitialCards
  /\ chartType = "bar"
  /\ alerted = <<>>
  /\ timers = {}
  /\ timerSeq = 0
  /\ requests = <<>>
  /\ last = Idle

\* one call createXChart(ctx): the chart it returns is kept in currentChart
CallBuilder(kind) ==
  /\ last = Idle
  /\ LET b == BuildChart(kind, latestResults)
     IN IF b.threw
        THEN /\ last' = [History(kind, "raised") EXCEPT !.cause = b.error]
             /\ UNCHANGED currentChart
        ELSE /\ last' = History(kind, "returned")
             /\ currentChart' = [chart |-> b.chart, destroyed |-> FALSE]
  /\ UNCHANGED <<latestResults, loadingInterval, messageIndex, loadingMessage,
                 loadingSection, resultsSection, chartsSection, resultTable,
                 cards, chartType, alerted, timers, timerSeq, requests>>

\* one call showResults(data) on the page as served
CallShowResults(data) ==
  /\ last = Idle
  /\ latestResults = <<>>
  /\ LET s == showResults(Page, data)
     IN /\ SetPage(s.page)
        /\ last' = [History("showResults",
                            IF s.threw THEN "raised" ELSE "returned") EXCEPT
                      !.cause = s.error, !.batch = <<data>>,
                      !.calls = showResultsCalls(Page, data)]
  /\ UNCHANGED requests

\* one call updateMetricsCards() on the batch in the store
CallUpdateMetricsCards ==
  /\ last = Idle
  /\ SetPage(updateMetricsCards(Page))
  /\ last' = History("updateMetricsCards", "returned")
  /\ UNCHANGED requests

\* one call updateChart(type) on the batch in the store; calls of updateChart
\* may follow one another
CallUpdateChart(type) ==
  /\ last.op \in {"none", "updateChart"}
  /\ LET u == updateChart(Page, type)
     IN /\ SetPage(u.page)
        /\ last' = [History("updateChart",
                            IF u.threw THEN "raised" ELSE "returned") EXCEPT
                      !.cause = u.error]
  /\ UNCHANGED requests

NextCharts ==
  \/ \E data \in ChartBatches : CallShowResults(data)
  \/ CallUpdateMetricsCards
  \/ \E type \in ChartKinds : CallUpdateChart(type)
  \/ CallBuilder("bar")
  \/ CallBuilder("line")
  \/ CallBuilder("pie")
  \/ CallBuilder("stacked")
  \/ CallBuilder("scatter")
  \/ CallBuilder("comparison")
  \/ CallBuilder("improvement")

SpecCharts == InitCharts /\ [][NextCharts]_vars

\* ================================================================ claims
FailedRequest == last.outcome = "caught" /\ last.cause \in {"http", "network"}

\* C1: once the page has left Loading (the loading section is hidden again),
\* no rotation interval created by showLoading is still live.
C1_NoIntervalAfterLoading == loadingSection = "none" => timers = {}

\* C2: at most one message-rotation interval is live in every reachable state.
C2_AtMostOneInterval == Cardinality(timers) <= 1

\* C3: when two overlapping requests have both delivered a batch, the Result
\* Store right after the later delivery is exactly the batch of that later
\* response, whichever request was issued first: never a merge of the two.
C3_LastResponseWins ==
  (last.op = "jsonResolved" /\ last.overtakenBy # {})
  => latestResults = last.batch[1]

\* the first-issued of two overlapping requests delivers a non-empty batch
\* after the second one has already delivered its own
C3_Witness ==
  /\ last.op = "jsonResolved" /\ last.outcome = "results"
  /\ "later" \in last.overtakenBy
  /\ latestResults = <<ItemA>>

\* the alert of a request that failed with the given cause
FailureAlert(cause, status) ==
  IF cause = "http"
  THEN <<"Error: ", <<"HTTP error! status: ", status>>>>
  ELSE <<"Error: ", <<"Failed to fetch">>>>

\* C4 as stated: a request failing with a non-2xx status or a network
\* exception never calls showResults, alerts the failure reason, and leaves
\* latestResults equal to its value when the request was issued.
C4_StoreAsWhenIssued ==
  FailedRequest =>
    /\ last.batch = <<>>
    /\ alerted = FailureAlert(last.cause, last.status)
    /\ latestResults = last.issued.latestResults

\* C4 amended: such a request never calls showResults, alerts the failure
\* reason (with the status code for a non-2xx response), and handling the
\* failure leaves latestResults as it was just before the failure was handled.
C4_FailureLeavesStore ==
  [][ (last'.outcome = "caught" /\ last'.cause \in {"http", "network"})
        => /\ last'.batch = <<>>
           /\ alerted' = FailureAlert(last'.cause, last'.status)
           /\ latestResults' = latestResults ]_vars

\* a 500 response handled while a non-empty batch is stored
C4_Witness ==
  /\ FailedRequest /\ last.cause = "http" /\ last.status = 500
  /\ latestResults # <<>>

\* C5: after a failed request the results and charts sections are visible
\* again if they were visible when the request was issued.
C5_PreRequestDisplayRestored ==
  ( /\ last.outcome = "caught"
    /\ last.issued.latestResults # <<>>
    /\ last.issued.resultsSection = "block"
    /\ last.issued.chartsSection = "block" )
  => (resultsSection = "block" /\ chartsSection = "block")

\* C6: right after the catch block has run, whatever the failure was (non-2xx
\* status, network exception, exception while handling the response), the
\* loading section is hidden.
C6_FailureEndsLoading == last.outcome = "caught" => loadingSection = "none"

\* the catch block ran because showResults raised
C6_Witness ==
  /\ last.outcome = "caught" /\ last.cause = "showResults"
  /\ loadingSection = "none"

\* C7: a successful response with an empty batch is not an error: showResults
\* returns, no error is alerted and the table is rendered with zero rows.
C7_EmptyBatchNotError ==
  (last.op = "jsonResolved" /\ last.batch = << <<>> >>)
  => /\ last.outcome = "results"
     /\ alerted = <<>>
     /\ resultTable.data = <<>>

\* C8: with an empty batch in the Result Store each of the seven chart
\* builders returns without raising.
C8_BuildersAcceptEmptyBatch ==
  (latestResults = <<>> /\ last.op \in ChartKinds) => last.outcome = "returned"

\* C9: whenever evaluateRandom is about to handle a JSON body, the bare array
\* X and the object { optimizations: X } lead to the same page: same store,
\* sections, table, cards, chart and alert.
C9_ShapesEquivalent ==
  \A r \in 1..Len(requests) :
    (requests[r].stage = "json" /\ requests[r].kind = "random")
    => \A X \in Batches :
         HandleBatch(Page, ResultsArray(JsonArray(X)))
           = HandleBatch(Page, ResultsArray(JsonObject(<< <<"optimizations", X>> >>)))

\* evaluateRandom has shown a non-empty batch that came as { optimizations: X }
C9_Witness ==
  /\ last.op = "jsonResolved" /\ last.outcome = "results"
  /\ last.shape = "object"
  /\ latestResults # <<>>

\* C10: right after a response has been shown, the chart on display is of the
\* kind whose radio is checked.
C10_ChartOfSelectedKind ==
  (last.op = "jsonResolved" /\ last.outcome = "results")
  => ChartKind(currentChart.chart) = chartType

\* C11: a chart-kind selection while a non-empty batch is stored only
\* replaces the chart by the one the selected kind's builder makes of the
\* stored batch: no request is issued or completed, and latestResults, the
\* table, the four cards, the three sections' visibility, the rotation
\* intervals and the loading message stay as they were.
C11_SelectionOnlyRebuildsChart ==
  [][ (chartType' # chartType /\ latestResults # <<>>)
        => /\ currentChart' =
                [chart |-> BuildChart(chartType', latestResults).chart,
                 destroyed |-> FALSE]
           /\ UNCHANGED <<latestResults, resultTable, cards, requests,
                          loadingSection, resultsSection, chartsSection,
                          timers, timerSeq, loadingInterval, messageIndex,
                          loadingMessage, alerted>> ]_vars

\* the pie radio was chosen while a request was in flight over a stored batch
C11_Witness ==
  /\ chartType = "pie" /\ latestResults # <<>>
  /\ currentChart # Null /\ ChartKind(currentChart.chart) = "pie"
  /\ loadingSection = "block" /\ chartsSection = "none"

\* C12: whenever the results are on display, the table rows, the four cards
\* and the chart are the ones derived from the batch held in latestResults.
C12_ViewsDerivedFromStore ==
  resultsSection = "block" =>
    /\ resultTable.data = MapSeq(latestResults, FormatRow)
    /\ latestResults # <<>> => cards = updateMetricsCards(Page).cards
    /\ (currentChart # Null
          /\ ~BuildChart(ChartKind(currentChart.chart), latestResults).threw)
       => currentChart.chart
            = BuildChart(ChartKind(currentChart.chart), latestResults).chart

\* C13: a run of evaluateManual with one of the four required metrics not a
\* number, or of evaluateRandom with a sensor count that is not a number or
\* is <= 0, shows the notification and changes nothing else: no request is
\* issued, Loading is not entered, no interval is started, and the store,
\* the sections, the table, the cards and the chart stay as they were.
C13_MalformedInputRejected ==
  [][ LET Rejected(msg) ==
            /\ alerted' = <<msg>>
            /\ UNCHANGED <<latestResults, loadingInterval, messageIndex,
                           currentChart, loadingMessage, loadingSection,
                           resultsSection, chartsSection, resultTable, cards,
                           chartType, timers, timerSeq, requests>>
      IN /\ \A form \in ManualForms :
              ((\E k \in RequiredFields : form[k] = NaN) /\ EvaluateManual(form))
              => Rejected("Please fill in all required fields with valid numbers.")
         /\ \A sensors \in SensorValues :
              ((sensors = NaN \/ sensors <= 0) /\ EvaluateRandom(sensors))
              => Rejected("Enter a valid number of sensors.") ]_vars

\* a sensor count was rejected while a stored batch was on display
C13_Witness ==
  /\ alerted = <<"Enter a valid number of sensors.">>
  /\ latestResults # <<>> /\ resultsSection = "block"
  /\ requests = <<>>

\* C14: messageIndex is always one of 0, 1, 2, and every firing of a rotation
\* interval while the loading section is shown moves the index to the next
\* one modulo 3 and displays that message: the first message follows the
\* third, the second the first, the third the second.
C14_TickAdvancesMessage ==
  /\ [](messageIndex \in 0..2)
  /\ [][ \A t \in 1..timerSeq :
            (loadingSection = "block" /\ Tick(t))
            => /\ messageIndex' = (messageIndex + 1) % 3
               /\ loadingMessage' = loadingMessages[messageIndex' + 1]
               /\ \A k \in 1..3 :
                    loadingMessage = loadingMessages[k]
                    => loadingMessage' = loadingMessages[(k % 3) + 1] ]_vars

\* the rotation has wrapped: the first message is shown while loading
C14_Witness ==
  /\ loadingSection = "block" /\ timers # {}
  /\ messageIndex = 0 /\ loadingMessage = loadingMessages[1]

\* ---- the improvement percentage and its five categories, as specified
\* original > 0 ? (original - optimized) / original * 100 : 0, a missing impact
\* counting as original = optimized = 0
SpecOriginal(item) ==
  IF Nullish(Get(item, "impact")) THEN 0
  ELSE Get(item, "impact").original_congestion

SpecOptimized(item) ==
  IF Nullish(Get(item, "impact")) THEN 0
  ELSE Get(item, "impact").optimized_congestion

SpecImprovement(item) ==
  IF SpecOriginal(item) > 0
  THEN <<(SpecOriginal(item) - SpecOptimized(item)) * 100, SpecOriginal(item)>>
  ELSE <<0, 1>>

FEq(a, b) == a[1] * b[2] = b[1] * a[2]

\* 1 Excellent, 2 Good, 3 Moderate, 4 Low, 5 NoImprovement
SpecCategory(v) ==
  IF v[1] >= 50 * v[2] THEN 1
  ELSE IF v[1] >= 25 * v[2] THEN 2
  ELSE IF v[1] >= 10 * v[2] THEN 3
  ELSE IF v[1] >= 0 THEN 4
  ELSE 5

SpecPalette ==
  <<"rgba(75, 192, 192, 0.8)", "rgba(54, 162, 235, 0.8)",
    "rgba(255, 205, 86, 0.8)", "rgba(255, 159, 64, 0.8)",
    "rgba(255, 99, 132, 0.8)">>

SpecCount(lr, c) ==
  Cardinality({i \in 1..Len(lr) : SpecCategory(SpecImprovement(lr[i])) = c})

\* the largest improvement of a non-empty batch
SpecBest(lr) ==
  SpecImprovement(lr[CHOOSE i \in 1..Len(lr) :
                       \A j \in 1..Len(lr) :
                         ~FLess(SpecImprovement(lr[i]), SpecImprovement(lr[j]))])

\* the four numeric consumers show the specified improvement of every item:
\* the Improvement % chart its value, the pie chart its category count, the
\* scatter chart its category colour, the cards its maximum and the number
\* of positive ones
NumericConsumersAgree ==
  LET lr == latestResults
  IN /\ (last.op = "improvement" /\ last.outcome = "returned")
          => \A i \in 1..Len(lr) :
               FEq(currentChart.chart.datasets[1].values[i], SpecImprovement(lr[i]))
     /\ (last.op = "pie" /\ last.outcome = "returned")
          => \A c \in 1..5 :
               currentChart.chart.datasets[1].data[c] = SpecCount(lr, c)
     /\ (last.op = "scatter" /\ last.outcome = "returned")
          => \A i \in 1..Len(lr) :
               currentChart.chart.datasets[1].backgroundColor[i]
                 = SpecPalette[SpecCategory(SpecImprovement(lr[i]))]
     /\ (last.op = "showResults" /\ last.outcome = "returned")
          => /\ cards.bestImprovement = ToFixed1(SpecBest(lr))
             /\ cards.optimizedSensors
                  = <<Cardinality({i \in 1..Len(lr) :
                                     SpecImprovement(lr[i])[1] > 0}), Len(lr)>>

\* C15 as stated: for every item of every batch all five consumers use the
\* specified improvement, the impact string of the table included (it shows
\* the value with one decimal).
C15_AllConsumersSameValue ==
  /\ NumericConsumersAgree
  /\ (last.op = "showResults" /\ last.outcome = "returned")
       => \A i \in 1..Len(latestResults) :
            LET text == Get(resultTable.data[i], "impact")
            IN /\ Len(text) = 11
               /\ text[10] = ToFixed1(SpecImprovement(latestResults[i]))

\* C15 amended: the four numeric consumers use the specified improvement for
\* every item; the impact string of the table shows that value with one
\* decimal for an item that has an impact, and is "N/A", without any
\* percentage, for an item whose impact is missing.
C15_ConsumersSameValue ==
  /\ NumericConsumersAgree
  /\ (last.op = "showResults" /\ last.outcome = "returned")
       => \A i \in 1..Len(latestResults) :
            LET text == Get(resultTable.data[i], "impact")
            IN IF Nullish(Get(latestResults[i], "impact"))
               THEN text = <<"N/A">>
               ELSE /\ Len(text) = 11
                    /\ text[10] = ToFixed1(SpecImprovement(latestResults[i]))

\* showResults rendered a batch holding an item without impact next to one
\* that got worse
C15_Witness ==
  /\ last.op = "showResults" /\ last.outcome = "returned"
  /\ latestResults = <<ItemB, ItemD>>

\* C16: in the pie chart of any batch every item is in exactly one of the
\* five buckets, and the five counts add up to the batch length.
C16_PieCountsSumToLength ==
  (last.op = "pie" /\ last.outcome = "returned")
  => LET data == currentChart.chart.datasets[1].data
         Buckets(imp) ==
           {b \in 1..5 : CASE b = 1 -> IsExcellent(imp)
                           [] b = 2 -> IsGood(imp)
                           [] b = 3 -> IsModerate(imp)
                           [] b = 4 -> IsLow(imp)
                           [] b = 5 -> IsNoImprovement(imp)}
     IN /\ Len(data) = 5
        /\ data[1] + data[2] + data[3] + data[4] + data[5] = Len(latestResults)
        /\ \A i \in 1..Len(latestResults) :
             Cardinality(Buckets(itemImprovement(latestResults[i]))) = 1

\* the pie chart of an item at exactly 0 next to one that got worse
C16_Witness ==
  /\ last.op = "pie" /\ last.outcome = "returned"
  /\ latestResults = <<ItemC, ItemD>>
  /\ currentChart.chart.datasets[1].data = <<0, 0, 0, 1, 1>>

\* the bucket each sample item belongs to when the lower bounds are
\* inclusive: 10 -> 2 is 80%, 10 -> 5 exactly 50%, 4 -> 3 exactly 25%,
\* 10 -> 9 exactly 10%, 5 -> 5 exactly 0%, 0 -> 3 and a missing impact count
\* as 0%, 5 -> 12 is negative (8 -> 4 is 50% again)
BucketOfSample(item) ==
  CASE item \in {ItemA, ItemE, ItemI} -> 1
    [] item = ItemF -> 2
    [] item = ItemG -> 3
    [] item \in {ItemB, ItemC, ItemH} -> 4
    [] item = ItemD -> 5

\* C17: in the pie counts and in the scatter colours alike, an improvement
\* of exactly 50 is Excellent, exactly 25 Good, exactly 10 Moderate, exactly
\* 0 Low (an item with original congestion 0 included), and only a negative
\* improvement is NoImprovement.
C17_LowerBoundsInclusive ==
  /\ (last.op = "pie" /\ last.outcome = "returned")
       => \A b \in 1..5 :
            currentChart.chart.datasets[1].data[b]
              = Cardinality({i \in 1..Len(latestResults) :
                               BucketOfSample(latestResults[i]) = b})
  /\ (last.op = "scatter" /\ last.outcome = "returned")
       => \A i \in 1..Len(latestResults) :
            currentChart.chart.datasets[1].backgroundColor[i]
              = SpecPalette[BucketOfSample(latestResults[i])]

\* the scatter chart of an item at exactly 50% and one with original 0
C17_Witness ==
  /\ last.op = "scatter" /\ last.outcome = "returned"
  /\ latestResults = <<ItemE, ItemH>>
  /\ currentChart.chart.datasets[1].backgroundColor
       = <<"rgba(75, 192, 192, 0.8)", "rgba(255, 159, 64, 0.8)">>

\* sum of the specified original / optimized congestion over a batch
RECURSIVE SpecSumOriginal(_)
SpecSumOriginal(lr) ==
  IF lr = <<>> THEN 0 ELSE SpecOriginal(Head(lr)) + SpecSumOriginal(Tail(lr))

RECURSIVE SpecSumOptimized(_)
SpecSumOptimized(lr) ==
  IF lr = <<>> THEN 0 ELSE SpecOptimized(Head(lr)) + SpecSumOptimized(Tail(lr))

\* (mean(original) - mean(optimized)) / mean(original) * 100, or 0 when
\* mean(original) is not positive; the batch length cancels out
SpecAvgReduction(lr) ==
  IF SpecSumOriginal(lr) > 0
  THEN <<(SpecSumOriginal(lr) - SpecSumOptimized(lr)) * 100, SpecSumOriginal(lr)>>
  ELSE <<0, 1>>

\* C18: for every non-empty batch shown, the Avg. Reduction card is the
\* reduction of the mean congestion, (mean(original) - mean(optimized)) /
\* mean(original) * 100 with a missing impact counted as 0, and 0 when
\* mean(original) is 0, printed with one decimal.
C18_AvgReductionOfMeans ==
  (last.op = "showResults" /\ last.outcome = "returned")
  => cards.avgReduction = ToFixed1(SpecAvgReduction(latestResults))

\* 10 -> 2 and 5 -> 5: the reduction of the means is 53.3%, the mean of the
\* two reductions would be 40.0%
C18_Witness ==
  /\ last.op = "showResults" /\ last.outcome = "returned"
  /\ latestResults = <<ItemA, ItemC>>
  /\ cards.avgReduction = 533

\* C19: for every non-empty batch shown, the Best Improvement card is the
\* largest improvement of its items (one decimal); for the batch 10 -> 2,
\* 5 -> 5 it reads 80.0 and the pie chart counts one Excellent, one Low and
\* no NoImprovement.
C19_BestIsMaximum ==
  /\ (last.op = "showResults" /\ last.outcome = "returned")
       => /\ cards.bestImprovement = ToFixed1(SpecBest(latestResults))
          /\ latestResults = <<ItemA, ItemC>> => cards.bestImprovement = 800
  /\ (last.op = "pie" /\ last.outcome = "returned"
        /\ latestResults = <<ItemA, ItemC>>)
       => currentChart.chart.datasets[1].data = <<1, 0, 0, 1, 0>>

\* the largest improvement is not the first item's: 5 -> 5 then 10 -> 2
C19_Witness ==
  /\ last.op = "showResults" /\ last.outcome = "returned"
  /\ latestResults = <<ItemC, ItemA>>
  /\ cards.bestImprovement = 800

\* C20: the bar and the line chart of a non-empty batch carry no congestion
\* series when the first item has no impact, whatever the later items hold;
\* when the first item has an impact they carry exactly two series, original
\* then optimized, each with one value per item and 0 for an item without
\* impact.
C20_FirstItemGatesSeries ==
  (last.op \in {"bar", "line"} /\ last.outcome = "returned")
  => LET lr == latestResults
         datasets == currentChart.chart.datasets
     IN IF Nullish(Get(lr[1], "impact"))
        THEN datasets = <<>>
        ELSE /\ Len(datasets) = 2
             /\ datasets[1].label = "Original Congestion"
             /\ datasets[2].label = "Optimized Congestion"
             /\ datasets[1].data = [i \in 1..Len(lr) |-> SpecOriginal(lr[i])]
             /\ datasets[2].data = [i \in 1..Len(lr) |-> SpecOptimized(lr[i])]

\* the line chart of a batch whose first item has no impact and whose second
\* item has one
C20_Witness ==
  /\ last.op = "line" /\ last.outcome = "returned"
  /\ latestResults = <<ItemB, ItemA>>
  /\ currentChart.chart.datasets = <<>>

\* C21: in the Improvement % chart every bar of an item whose improvement is
\* >= 0, exactly 0 included, has the non-negative colour, and every bar of an
\* item whose improvement is < 0 has the negative colour.
C21_BarColourBySign ==
  (last.op = "improvement" /\ last.outcome = "returned")
  => \A i \in 1..Len(latestResults) :
       currentChart.chart.datasets[1].backgroundColor[i]
         = IF SpecImprovement(latestResults[i])[1] >= 0
           THEN "rgba(75, 192, 192, 0.8)"
           ELSE "rgba(255, 99, 132, 0.8)"

\* the largest original or optimized congestion of a non-empty batch
SpecMaxCongestion(lr) ==
  LET values == {SpecOriginal(lr[i]) : i \in 1..Len(lr)}
                  \cup {SpecOptimized(lr[i]) : i \in 1..Len(lr)}
  IN CHOOSE m \in values : \A v \in values : v <= m

\* C22: the second series of the scatter chart of a non-empty batch is
\* exactly the two points (0, 0) and (max, max), max being the largest
\* original or optimized congestion of the batch with a missing impact
\* counted as 0; for a batch whose largest value is 10 they are (0, 0) and
\* (10, 10).
C22_ReferenceLine ==
  (last.op = "scatter" /\ last.outcome = "returned" /\ latestResults # <<>>)
  => LET points == currentChart.chart.datasets[2].points
     IN /\ points = << [x |-> 0, y |-> 0],
                       [x |-> SpecMaxCongestion(latestResults),
                        y |-> SpecMaxCongestion(latestResults)] >>
        /\ latestResults \in {<<ItemA>>, <<ItemG>>, <<ItemF, ItemE>>}
             => points = << [x |-> 0, y |-> 0], [x |-> 10, y |-> 10] >>

\* the largest value, 12, is the optimized congestion of the second item
C22_Witness ==
  /\ last.op = "scatter" /\ last.outcome = "returned"
  /\ latestResults = <<ItemA, ItemD>>
  /\ currentChart.chart.datasets[2].points
       = << [x |-> 0, y |-> 0], [x |-> 12, y |-> 12] >>

\* the keys of a formatted row: the item's own keys in their order, then
\* optimization and impact when the item did not have them
SpecRowKeys(item) ==
  Keys(item)
    \o (IF HasKey(item, "optimization") THEN <<>> ELSE <<"optimization">>)
    \o (IF HasKey(item, "impact") THEN <<>> ELSE <<"impact">>)

\* C23: the columns of the table are exactly the keys of the first formatted
\* row, in that row's order: a key that only a later row has gets no column,
\* and a key of the first row gets one even when later rows lack it.
C23_ColumnsFromFirstRow ==
  (last.op = "showResults" /\ last.outcome = "returned")
  => /\ [i \in 1..Len(resultTable.columns) |-> resultTable.columns[i].field]
          = SpecRowKeys(latestResults[1])
     /\ Keys(resultTable.data[1]) = SpecRowKeys(latestResults[1])

\* timestamp is a key of the second row only and gets no column
C23_Witness ==
  /\ last.op = "showResults" /\ last.outcome = "returned"
  /\ latestResults = <<ItemA, ItemI>>
  /\ HasKey(resultTable.data[2], "timestamp")
  /\ Len(resultTable.columns) = 3

\* C24: a call of updateMetricsCards while latestResults is empty changes
\* none of the four cards, and nothing else of the page either.
C24_EmptyStoreKeepsCards ==
  [][ (latestResults = <<>> /\ CallUpdateMetricsCards)
        => /\ cards' = cards
           /\ UNCHANGED <<latestResults, resultTable, currentChart,
                          loadingSection, resultsSection, chartsSection>> ]_vars

\* updateMetricsCards has run on the empty store and the cards still show the
\* texts the page was served with
C24_Witness ==
  /\ last.op = "updateMetricsCards" /\ latestResults = <<>>
  /\ cards = InitialCards

\* positions of the calls of fn in a call sequence
CallsOf(calls, fn) == {k \in 1..Len(calls) : calls[k].fn = fn}

\* C25: a run of showResults that returns renders the table exactly once and
\* updates the metric cards exactly once, and both have been done before
\* updateChart (and with it the chart builder) is called.
C25_TableAndCardsBeforeChart ==
  (last.op = "showResults" /\ last.outcome = "returned")
  => /\ Cardinality(CallsOf(last.calls, "bootstrapTable")) = 1
     /\ Cardinality(CallsOf(last.calls, "updateMetricsCards")) = 1
     /\ \A c \in CallsOf(last.calls, "updateChart") :
          /\ \A t \in CallsOf(last.calls, "bootstrapTable") : t < c
          /\ \A m \in CallsOf(last.calls, "updateMetricsCards") : m < c

\* C26: while at least one request is outstanding (its handler run is
\* suspended at fetch or at res.json()), the loading section is visible and a
\* rotation interval is live; in particular the response to one request does
\* not hide the loading section while another request is still in flight.
C26_LoadingWhileOutstanding ==
  requests # <<>> => (loadingSection = "block" /\ timers # {})

\* C27: every handler run that ends in the catch block with an error
\* notification (HTTP failure, network failure, unparsable body, or an
\* exception raised inside showResults) leaves latestResults as it was when
\* the request was issued.
C27_CaughtKeepsStore ==
  last.outcome = "caught" => latestResults = last.issued.latestResults

\* C28: in every reachable state the loading section is not visible together
\* with the results section or the charts section.
C28_LoadingExcludesResults ==
  loadingSection = "block"
  => (resultsSection = "none" /\ chartsSection = "none")

\* a new request was submitted over displayed results, which are now hidden
\* behind the loading section
C28_Witness ==
  /\ requests # <<>>
  /\ requests[Len(requests)].issued.resultsSection = "block"
  /\ loadingSection = "block"
  /\ resultsSection = "none" /\ chartsSection = "none"

\* C29: the UI handlers (evaluateManual, evaluateRandom, the chart-kind
\* listener) never call updateChart while latestResults is empty: every step
\* of the page in which the chart instance is destroyed or replaced has a
\* non-empty store, so no chart of an empty batch is ever built.
C29_NoChartUpdateOnEmptyStore ==
  [][ currentChart' # currentChart => latestResults' # <<>> ]_vars

\* the pie radio was chosen over an empty store that followed a shown batch:
\* the bar chart of that batch was left untouched
C29_Witness ==
  /\ latestResults = <<>> /\ chartType = "pie"
  /\ currentChart # Null /\ ~currentChart.destroyed
  /\ ChartKind(currentChart.chart) = "bar"

\* C30: no chart instance is destroyed twice: whenever updateChart is entered,
\* currentChart is null or refers to an instance that has not been destroyed
\* yet, also when the previous updateChart ended with its builder raising.
C30_NoSecondDestroy ==
  [][ \A type \in ChartKinds :
        CallUpdateChart(type) => (currentChart # Null => ~currentChart.destroyed)
    ]_vars

====
